---- MODULE Spec2Model ----
(***************************************************************************)
(* A model of the job-control core of small_c-shell (src/main.c): the      *)
(* read loop, the built-ins, the process launcher, the reap loop and the   *)
(* SIGTSTP handler of the interpreter, together with the life of every     *)
(* forked child up to its termination.                                     *)
(***************************************************************************)
EXTENDS Integers, Sequences, FiniteSets, TLC

\* ------------------------------------------------------------ bounds

\* The number of children the session may fork.
MaxChildren == 2
\* The number of SIGTSTP deliveries to the interpreter.
MaxSig == 2

\* ------------------------------------------------------------ constants

SIGINT == 2

Pids == 1..MaxChildren
NoPid == 0
\* waitpid's "any child".
AnyChild == -1

DevNull == "/dev/null"
Tty == "tty"
InFile == "in.txt"
OutFile == "out.txt"
Dir == "dir"

MsgEnter == "Entering foreground-only mode (& is now ignored) \n"
MsgExit == "Exiting foreground-only mode \n"

\* Command names, as the characters of args[0].
NameExit == <<"e", "x", "i", "t">>
NameCd == <<"c", "d">>
NameStatus == <<"s", "t", "a", "t", "u", "s">>
NameBlank == <<"\n">>
NameComment == <<"#", "x">>
NameProg == <<"l", "s">>
\* A program whose name only starts with a built-in's.
NameExits == <<"e", "x", "i", "t", "s">>

\* The parsed lines the tokenizer hands over: args[0], args[1] (cd only) and
\* the three flags parse_line sets.
Line(n, a, b, i, o) ==
    [name |-> n, arg |-> a, background |-> b, input_redirect |-> i, output_redirect |-> o]

NoArg == "NULL"

Lines ==
    { Line(n, NoArg, FALSE, FALSE, FALSE) : n \in {NameExit, NameStatus, NameBlank, NameComment} }
    \cup { Line(NameCd, a, FALSE, FALSE, FALSE) : a \in {NoArg, Dir} }
    \cup { Line(NameProg, NoArg, b, i, o) : b \in BOOLEAN, i \in BOOLEAN, o \in BOOLEAN }
    \cup { Line(NameExits, NoArg, FALSE, FALSE, FALSE) }

\* What an uninitialised info.exit_status may hold when the loop starts.
StackGarbage == {0, 9}

\* ------------------------------------------------------------ wait status

W_EXITCODE(ret, sig) == ret * 256 + sig

WTERMSIG(s) == s % 128

WIFEXITED(s) == WTERMSIG(s) = 0

WEXITSTATUS(s) == (s \div 256) % 256

\* my_status: the line it prints for a raw wait status.
my_status(exit_status) ==
    IF WIFEXITED(exit_status)
    THEN <<"exit value", WEXITSTATUS(exit_status)>>
    ELSE <<"terminated by signal", WTERMSIG(exit_status)>>

\* The ways a launched program may end.
ProgResults == {W_EXITCODE(0, 0), W_EXITCODE(1, 0), W_EXITCODE(0, SIGINT)}

\* ------------------------------------------------------------ state

VARIABLES
    pc,               \* where the interpreter is
    status,           \* small_shell's continuation flag
    info,             \* struct shell_info without exit_status
    exit_status,      \* info.exit_status
    stop_background,  \* the global flag
    spawnPid,         \* other_cmd's child, NoPid outside other_cmd
    child,            \* the processes forked so far
    nforked,          \* how many
    out,              \* the interpreter's stdout lines of the current dispatch
    sigCount,         \* SIGTSTP deliveries to the interpreter
    sigOut,           \* what handle_SIG wrote
    announced,        \* children that printed "background pid is"
    reports,          \* "background pid <pid> is done" lines per child
    launched,         \* per child, the branch the parent took: "fg" or "bg"
    waits,            \* per child, the wait sites that retired it, in order
    lastFg,           \* wait status of the last child the blocking wait retired
    disp,             \* the current (or last) dispatch: what it started from
    handlerCalls,     \* the calls the last run of handle_SIG made
    pl,               \* the read loop seen at the level of tokens: where it is
    tokens,           \* the tokens of the line read
    args,             \* char* args[]
    prev              \* the flags and the argument count of the line before

vars ==
    <<pc, status, info, exit_status, stop_background, spawnPid, child, nforked,
      out, sigCount, sigOut, announced, reports, launched, waits, lastFg, disp,
      handlerCalls, pl, tokens, args, prev>>

\* What the token-level view of the loop adds to the state.
parseVars == <<pl, tokens, args, prev>>

NoStatus == -1

\* init_shell_info
init_shell_info ==
    [background |-> FALSE, input_redirect |-> FALSE, output_redirect |-> FALSE,
     input_filename |-> "", output_filename |-> ""]

\* parse_line's effect on info for a line.
parse_line(line) ==
    [background |-> line.background,
     input_redirect |-> line.input_redirect,
     output_redirect |-> line.output_redirect,
     input_filename |-> IF line.input_redirect THEN InFile ELSE "",
     output_filename |-> IF line.output_redirect THEN OutFile ELSE ""]

NoChild ==
    [st |-> "none", info |-> init_shell_info, sb |-> FALSE, fd0 |-> Tty, fd1 |-> Tty,
     wstatus |-> NoStatus, tstp |-> "handler", sigint |-> "ignore"]

\* A terminated child the parent has not waited for: only its status is left.
Zombie(w) == [NoChild EXCEPT !.st = "zombie", !.wstatus = w]

\* A child a wait has retired: nothing is left of it.
Gone == [NoChild EXCEPT !.st = "reaped"]

NoLaunch == "none"

\* ------------------------------------------------------------ tokens

MaxTokens == 3

\* char* args[512], cut to one slot more than a line has tokens.
ArgSlots == MaxTokens + 1

\* A NULL entry of args.
Null == <<>>

\* small_shell's "Init args to null".
EmptyArgs == [i \in 1..ArgSlots |-> Null]

TokIn == <<"<">>
TokOut == <<">">>
TokAmp == <<"&">>
TokPid == <<"$", "$">>
TokArg == <<"f">>

\* What strtok_r may return for a line.
Alphabet == {NameProg, NameExit, TokArg, TokPid, TokIn, TokOut, TokAmp}

\* The text strcpy leaves in a filename buffer for a token.
Text(t) ==
    CASE t = NameProg -> "ls"
      [] t = NameExit -> "exit"
      [] t = TokArg -> "f"
      [] t = TokPid -> "$$"
      [] t = TokIn -> "<"
      [] t = TokOut -> ">"
      [] t = TokAmp -> "&"

\* Lines whose every redirection operator after the first token is followed
\* by a token: parse_line copies that token without looking at it.
RECURSIVE Named(_, _)
Named(toks, k) ==
    IF k > Len(toks) THEN TRUE
    ELSE IF toks[k] \in {TokIn, TokOut}
         THEN k + 1 <= Len(toks) /\ Named(toks, k + 2)
         ELSE Named(toks, k + 1)

TokenLines ==
    { l \in UNION { [1..n -> Alphabet] : n \in 1..MaxTokens } : Named(l, 2) }

\* getpid(): the interpreter's pid, a number of several digits.
getpid == 4242

Digit(d) == <<"0", "1", "2", "3", "4", "5", "6", "7", "8", "9">>[d + 1]

\* sprintf(args[i], "%d", pid)
RECURSIVE Decimal(_)
Decimal(n) == IF n < 10 THEN <<Digit(n)>> ELSE Append(Decimal(n \div 10), Digit(n % 10))

\* The while loop of parse_line from token k on, i the argument counter.
RECURSIVE parse_rest(_, _, _, _, _)
parse_rest(toks, k, inf, a, i) ==
    IF k > Len(toks) THEN [info |-> inf, args |-> a]
    ELSE IF toks[k] = TokIn
         THEN parse_rest(toks, k + 2,
                         [inf EXCEPT !.input_redirect = TRUE, !.input_filename = Text(toks[k + 1])],
                         a, i)
    ELSE IF toks[k] = TokOut
         THEN parse_rest(toks, k + 2,
                         [inf EXCEPT !.output_redirect = TRUE, !.output_filename = Text(toks[k + 1])],
                         a, i)
    ELSE IF toks[k] = TokAmp
         THEN parse_rest(toks, k + 1, [inf EXCEPT !.background = TRUE], a, i)
    ELSE IF toks[k] = TokPid
         THEN parse_rest(toks, k + 1, inf, [a EXCEPT ![i] = Decimal(getpid)], i + 1)
    ELSE parse_rest(toks, k + 1, inf, [a EXCEPT ![i] = toks[k]], i + 1)

\* parse_line on the tokens of a line: the first token is copied as it is.
parse_tokens(toks, inf, a) == parse_rest(toks, 2, inf, [a EXCEPT ![1] = toks[1]], 2)

\* A free_memory that frees the command name only.
free_memory_first_only(a) == [a EXCEPT ![1] = Null]

RECURSIVE free_from(_, _)
free_from(a, i) ==
    IF i > ArgSlots \/ a[i] = Null THEN a ELSE free_from([a EXCEPT ![i] = Null], i + 1)

\* free_memory: every entry up to the first NULL one.
free_memory(a) == free_from(a, 1)

\* The argument list a reader of args sees: the entries before the first NULL.
RECURSIVE ArgList(_, _)
ArgList(a, i) ==
    IF i > ArgSlots \/ a[i] = Null THEN <<>> ELSE <<a[i]>> \o ArgList(a, i + 1)

NoPrev == [background |-> FALSE, input_redirect |-> FALSE, output_redirect |-> FALSE, argc |-> 0]

NoDisp == [name |-> <<>>, exit_status |-> NoStatus, nforked |-> 0, forked_with |-> FALSE]

Init ==
    /\ pc = "prompt"
    /\ status = 1
    /\ info = init_shell_info
    /\ exit_status \in StackGarbage
    /\ stop_background = FALSE
    /\ spawnPid = NoPid
    /\ child = [c \in Pids |-> NoChild]
    /\ nforked = 0
    /\ out = <<>>
    /\ sigCount = 0
    /\ sigOut = <<>>
    /\ announced = {}
    /\ reports = [c \in Pids |-> 0]
    /\ launched = [c \in Pids |-> NoLaunch]
    /\ waits = [c \in Pids |-> <<>>]
    /\ lastFg = NoStatus
    /\ disp = NoDisp
    /\ handlerCalls = <<>>
    /\ pl = "top"
    /\ tokens = <<>>
    /\ args = EmptyArgs
    /\ prev = NoPrev

\* ------------------------------------------------------------ stdout lines

NoDecode == <<"", 0>>

OutLine(kind, pid, decoded) == [kind |-> kind, pid |-> pid, decoded |-> decoded]

LineExiting == OutLine("exiting shell", NoPid, NoDecode)
LineChdirFailed == OutLine("chdir() failed", NoPid, NoDecode)
LineStatus(s) == OutLine("status", NoPid, my_status(s))
LineBgDone(p, s) == OutLine("background pid is done", p, my_status(s))

\* ------------------------------------------------------------ execute_cmd

\* The chain with exit matched on its first four characters only.
BranchExitPrefix(name) ==
    IF Len(name) >= 4 /\ SubSeq(name, 1, 4) = NameExit THEN "exit"
    ELSE IF name = NameCd THEN "cd"
    ELSE IF name = NameStatus THEN "status"
    ELSE IF name = NameBlank \/ name[1] = "#" THEN "noop"
    ELSE "other"

\* The if/else chain of execute_cmd on args[0].
Branch(name) ==
    IF name = NameExit THEN "exit"
    ELSE IF name = NameCd THEN "cd"
    ELSE IF name = NameStatus THEN "status"
    ELSE IF name = NameBlank \/ name[1] = "#" THEN "noop"
    ELSE "other"

\* What every dispatch starts from: the line parsed into info, nothing printed yet.
\* forked_with is the stop_background a fork in this dispatch copies into the
\* child; it is kept until the parent has made its own test.
Begin(line) ==
    /\ pc = "prompt"
    /\ info' = parse_line(line)
    /\ disp' = [name |-> line.name, exit_status |-> exit_status, nforked |-> nforked,
                forked_with |-> Branch(line.name) = "other" /\ stop_background]

\* my_exit
my_exit == 0

DoExit ==
    \E line \in Lines :
        /\ Branch(line.name) = "exit"
        /\ Begin(line)
        /\ out' = <<LineExiting>>
        /\ status' = my_exit
        /\ pc' = "reap"
        /\ UNCHANGED <<handlerCalls, parseVars, exit_status, stop_background, spawnPid, child, nforked,
                       sigCount, sigOut, announced, reports, launched, waits, lastFg>>

\* my_cd: chdir to HOME or to args[1] succeeds or fails, and a failure is
\* printed. The working directory is read by nothing else in the shell and is
\* not part of the state.
DoCd ==
    \E line \in Lines, ok \in BOOLEAN :
        /\ Branch(line.name) = "cd"
        /\ Begin(line)
        /\ out' = IF ok THEN <<>> ELSE <<LineChdirFailed>>
        /\ pc' = "reap"
        /\ UNCHANGED <<handlerCalls, parseVars, status, exit_status, stop_background, spawnPid, child, nforked,
                       sigCount, sigOut, announced, reports, launched, waits, lastFg>>

DoStatus ==
    \E line \in Lines :
        /\ Branch(line.name) = "status"
        /\ Begin(line)
        /\ out' = <<LineStatus(exit_status)>>
        /\ pc' = "reap"
        /\ UNCHANGED <<handlerCalls, parseVars, status, exit_status, stop_background, spawnPid, child, nforked,
                       sigCount, sigOut, announced, reports, launched, waits, lastFg>>

DoNoop ==
    \E line \in Lines :
        /\ Branch(line.name) = "noop"
        /\ Begin(line)
        /\ out' = <<>>
        /\ pc' = "reap"
        /\ UNCHANGED <<handlerCalls, parseVars, status, exit_status, stop_background, spawnPid, child, nforked,
                       sigCount, sigOut, announced, reports, launched, waits, lastFg>>

\* ------------------------------------------------------------ other_cmd

\* fork(): the child is a copy of the interpreter: its info, its stop_background,
\* its descriptors and its signal dispositions.
Forked(line) ==
    [st |-> "forked", info |-> parse_line(line), sb |-> stop_background,
     fd0 |-> Tty, fd1 |-> Tty, wstatus |-> NoStatus,
     tstp |-> "handler", sigint |-> "ignore"]

DoFork ==
    \E line \in Lines :
        /\ Branch(line.name) = "other"
        /\ Begin(line)
        /\ nforked < MaxChildren
        /\ nforked' = nforked + 1
        /\ child' = [child EXCEPT ![nforked + 1] = Forked(line)]
        /\ spawnPid' = nforked + 1
        /\ out' = <<>>
        /\ pc' = "forked"
        /\ UNCHANGED <<handlerCalls, parseVars, status, exit_status, stop_background,
                       sigCount, sigOut, announced, reports, launched, waits, lastFg>>

\* fork() returned -1: perror and exit(1).
ForkFail ==
    \E line \in Lines :
        /\ Branch(line.name) = "other"
        /\ Begin(line)
        /\ out' = <<>>
        /\ pc' = "dead"
        /\ UNCHANGED <<handlerCalls, parseVars, status, exit_status, stop_background, spawnPid, child, nforked,
                       sigCount, sigOut, announced, reports, launched, waits, lastFg>>

\* The parent's test with the flag left out.
ParentIgnoresFlag(background, sb) == background

\* The test both branches of other_cmd make.
ParentIsBackground(background, sb) == background /\ ~sb

ChildIsBackground(background, sb) == background /\ ~sb

\* waitpid(pid, &status, options): the children it can return now.
Zombies(pid) ==
    { c \in Pids : child[c].st = "zombie" /\ (pid = AnyChild \/ pid = c) }

\* A successful wait: the child is retired and its status stored.
Retire(c, site) ==
    /\ child' = [child EXCEPT ![c] = Gone]
    /\ exit_status' = child[c].wstatus
    /\ waits' = [waits EXCEPT ![c] = Append(@, site)]

\* The parent branch of other_cmd, up to the wait.
ParentCheck ==
    /\ pc = "forked"
    /\ launched' = [launched EXCEPT ![spawnPid] =
            IF ParentIsBackground(info.background, stop_background) THEN "bg" ELSE "fg"]
    /\ IF ParentIsBackground(info.background, stop_background)
       THEN /\ IF Zombies(spawnPid) # {}
               THEN Retire(spawnPid, "advisory")
               ELSE UNCHANGED <<child, exit_status, waits>>
            /\ spawnPid' = NoPid
            /\ pc' = "reap"
       ELSE /\ pc' = "fgwait"
            /\ UNCHANGED <<child, exit_status, waits, spawnPid>>
    /\ disp' = [disp EXCEPT !.forked_with = FALSE]
    /\ UNCHANGED <<handlerCalls, parseVars, status, info, stop_background, nforked, out,
                   sigCount, sigOut, announced, reports, lastFg>>

\* The foreground wait naming any child.
FgWaitAnyPid == AnyChild

\* The pid the foreground wait names.
FgWaitPid == spawnPid

\* The foreground wait given WNOHANG.
FgWaitNoHang == FALSE

\* Whether the foreground wait blocks (options 0) or not (WNOHANG).
FgWaitBlocks == TRUE

\* waitpid(spawnPid, &info->exit_status, 0) and the print that follows it.
ParentFgWait ==
    /\ pc = "fgwait"
    /\ IF Zombies(FgWaitPid) # {}
       THEN \E c \in Zombies(FgWaitPid) :
                /\ Retire(c, "fg")
                /\ lastFg' = child[c].wstatus
                /\ out' = IF child[c].wstatus # 0
                          THEN Append(out, LineStatus(child[c].wstatus)) ELSE out
       ELSE /\ ~FgWaitBlocks
            /\ out' = IF exit_status # 0 THEN Append(out, LineStatus(exit_status)) ELSE out
            /\ UNCHANGED <<child, exit_status, waits, lastFg>>
    /\ spawnPid' = NoPid
    /\ pc' = "reap"
    /\ UNCHANGED <<handlerCalls, parseVars, status, info, stop_background, nforked,
                   sigCount, sigOut, announced, reports, launched, disp>>

\* One turn of the reap loop that finds a finished child.
ReapOne ==
    /\ pc = "reap"
    /\ \E c \in Zombies(AnyChild) :
        /\ Retire(c, "reap")
        /\ out' = Append(out, LineBgDone(c, child[c].wstatus))
        /\ reports' = [reports EXCEPT ![c] = @ + 1]
    /\ UNCHANGED <<handlerCalls, parseVars, pc, status, info, stop_background, spawnPid, nforked,
                   sigCount, sigOut, announced, launched, lastFg, disp>>

\* The turn that finds none: execute_cmd returns, free_memory, and either the
\* loop ends or the next iteration resets info and waits for a line.
ReapDone ==
    /\ pc = "reap"
    /\ Zombies(AnyChild) = {}
    /\ disp' = NoDisp
    /\ out' = <<>>
    /\ IF status # 0
       THEN pc' = "prompt" /\ info' = init_shell_info
       ELSE pc' = "done" /\ info' = info
    /\ UNCHANGED <<handlerCalls, parseVars, status, exit_status, stop_background, spawnPid, child, nforked,
                   sigCount, sigOut, announced, reports, launched, waits, lastFg>>

\* ------------------------------------------------------------ SIGTSTP

handle_SIG_text(flag) == IF flag = FALSE THEN MsgEnter ELSE MsgExit

\* The calls one run of handle_SIG makes, in order; both branches make the same.
handle_SIG_calls(flag) ==
    <<[fn |-> "write", on |-> "STDOUT_FILENO", text |-> handle_SIG_text(flag)],
      [fn |-> "fflush", on |-> "stdout", text |-> ""],
      [fn |-> "store", on |-> "stop_background", text |-> ""]>>

\* A handler that only ever enters the mode.
handle_SIG_set_only(flag) == [flag |-> TRUE, msg |-> MsgEnter]

\* handle_SIG: the new flag and the message written.
handle_SIG(flag) ==
    IF flag = FALSE
    THEN [flag |-> TRUE, msg |-> MsgEnter]
    ELSE [flag |-> FALSE, msg |-> MsgExit]

\* A SIGTSTP delivered to the interpreter, at any point of its run.
Sigtstp ==
    /\ pc \notin {"done", "dead"}
    /\ sigCount < MaxSig
    /\ sigCount' = sigCount + 1
    /\ stop_background' = handle_SIG(stop_background).flag
    /\ sigOut' = Append(sigOut, handle_SIG(stop_background).msg)
    /\ handlerCalls' = handle_SIG_calls(stop_background)
    /\ UNCHANGED <<parseVars, pc, status, info, exit_status, spawnPid, child, nforked,
                   out, announced, reports, launched, waits, lastFg, disp>>

\* ------------------------------------------------------------ the child

\* What open() and dup2() may do in a redirection.
Outcomes == {"ok", "open_fails", "dup2_fails"}

\* The outcomes of a redirection that is made, and the one of one that is not.
Tried(made) == IF made THEN Outcomes ELSE {"ok"}

\* A child before execvp: its two standard descriptors and, once it has called
\* exit, the code it exited with.
Proc(c) == [fd0 |-> child[c].fd0, fd1 |-> child[c].fd1, alive |-> TRUE, code |-> 0]

Exited(p, code) == [p EXCEPT !.alive = FALSE, !.code = code]

\* output_redirection(filename), r being what open and dup2 do.
output_redirection(p, filename, r) ==
    IF ~p.alive THEN p
    ELSE IF r = "open_fails" THEN Exited(p, 1)
    ELSE IF r = "dup2_fails" THEN Exited(p, 1)
    ELSE [p EXCEPT !.fd1 = filename]

\* input_redirection(filename), r being what open and dup2 do.
input_redirection(p, filename, r) ==
    IF ~p.alive THEN p
    ELSE IF r = "open_fails" THEN Exited(p, 1)
    ELSE IF r = "dup2_fails" THEN Exited(p, 0)
    ELSE [p EXCEPT !.fd0 = filename]

\* The output test reading the input flag.
NeedNullOutputWrongFlag(i) == ~i.input_redirect

\* The two tests of the background branch for the null device.
NeedNullOutput(i) == ~i.output_redirect

NeedNullInput(i) == ~i.input_redirect

\* The background branch's redirections, in the order of the code.
NullRedirections(p, i, r1, r2) ==
    LET p1 == IF NeedNullOutput(i) THEN output_redirection(p, DevNull, r1) ELSE p
    IN  IF NeedNullInput(i) THEN input_redirection(p1, DevNull, r2) ELSE p1

\* The explicit redirections, in the order of the code.
ExplicitRedirections(p, i, r1, r2) ==
    LET p1 == IF i.input_redirect THEN input_redirection(p, i.input_filename, r1) ELSE p
    IN  IF i.output_redirect THEN output_redirection(p1, i.output_filename, r2) ELSE p1

\* The child record after a step that left it as p: in state st if it lives, a
\* zombie with its exit code if it called exit.
After(c, p, st) ==
    IF p.alive
    THEN [child[c] EXCEPT !.fd0 = p.fd0, !.fd1 = p.fd1, !.st = st]
    ELSE Zombie(W_EXITCODE(p.code, 0))

parentVars ==
    <<pc, status, info, exit_status, stop_background, spawnPid, nforked, out,
      sigCount, sigOut, reports, launched, waits, lastFg, disp, handlerCalls, parseVars>>

\* custom_IG: the child's first step.
ChildIgnoreTstp(c) ==
    /\ child[c].st = "forked"
    /\ child' = [child EXCEPT ![c].st = "ignoring", ![c].tstp = "ignore"]
    /\ UNCHANGED <<parentVars, announced>>

\* The if/else on info->background && !stop_background in the child.
ChildConfigure(c) ==
    /\ child[c].st = "ignoring"
    /\ IF ChildIsBackground(child[c].info.background, child[c].sb)
       THEN /\ announced' = announced \cup {c}
            /\ \E r1 \in Tried(NeedNullOutput(child[c].info)),
                  r2 \in Tried(NeedNullInput(child[c].info)) :
                child' = [child EXCEPT ![c] =
                    After(c, NullRedirections(Proc(c), child[c].info, r1, r2), "configured")]
       ELSE /\ child' = [child EXCEPT ![c].st = "configured", ![c].sigint = "default"]
            /\ UNCHANGED announced
    /\ UNCHANGED parentVars

\* The explicit redirections.
ChildRedirect(c) ==
    /\ child[c].st = "configured"
    /\ \E r1 \in Tried(child[c].info.input_redirect),
          r2 \in Tried(child[c].info.output_redirect) :
        child' = [child EXCEPT ![c] =
            After(c, ExplicitRedirections(Proc(c), child[c].info, r1, r2), "redirected")]
    /\ UNCHANGED <<parentVars, announced>>

\* A failed execvp leaving with the redirections' code.
execvp_fails_with_1(p) == Exited(p, 1)

\* execvp returned: perror and exit(2).
execvp_fails(p) == Exited(p, 2)

\* execvp: the image is replaced, or perror and exit(2).
ChildExec(c) ==
    /\ child[c].st = "redirected"
    /\ \E ok \in BOOLEAN :
        child' = [child EXCEPT ![c] =
            IF ok THEN [child[c] EXCEPT !.st = "running"]
            ELSE After(c, execvp_fails(Proc(c)), "running")]
    /\ UNCHANGED <<parentVars, announced>>

\* The program ends.
ChildEnds(c) ==
    /\ child[c].st = "running"
    /\ \E w \in ProgResults :
        child' = [child EXCEPT ![c] = Zombie(w)]
    /\ UNCHANGED <<parentVars, announced>>

ChildStep ==
    \E c \in Pids :
        \/ ChildIgnoreTstp(c)
        \/ ChildConfigure(c)
        \/ ChildRedirect(c)
        \/ ChildExec(c)
        \/ ChildEnds(c)

\* ------------------------------------------------------------ signals

\* A child that has been forked and has not terminated.
Alive(c) == child[c].st \in {"forked", "ignoring", "configured", "redirected", "running"}

\* An interpreter that left SIGINT at its default.
custom_SIG_default == "default"

\* custom_SIG: the interpreter's disposition for SIGINT.
custom_SIG == "ignore"

\* A SIGINT delivered to the interpreter.
SigintShell ==
    /\ pc \notin {"done", "dead", "killed"}
    /\ pc' = IF custom_SIG = "ignore" THEN pc ELSE "killed"
    /\ UNCHANGED <<handlerCalls, parseVars, status, info, exit_status, stop_background, spawnPid, child,
                   nforked, out, sigCount, sigOut, announced, reports, launched, waits,
                   lastFg, disp>>

\* A SIGINT delivered to a child: ignored, or the default action, which
\* terminates it.
SigintChild(c) ==
    /\ Alive(c)
    /\ child' = IF child[c].sigint = "ignore" THEN child
                ELSE [child EXCEPT ![c] = Zombie(W_EXITCODE(0, SIGINT))]
    /\ UNCHANGED <<parentVars, announced>>

\* A SIGTSTP delivered to a child: ignored once custom_IG has run; before that
\* the disposition is the one fork copied, and handle_SIG runs on the child's
\* copy of stop_background.
SigtstpChild(c) ==
    /\ Alive(c)
    /\ child' = IF child[c].tstp = "ignore" THEN child
                ELSE [child EXCEPT ![c].sb = handle_SIG(@).flag]
    /\ UNCHANGED <<parentVars, announced>>

ChildSignal ==
    \E c \in Pids :
        \/ SigintChild(c)
        \/ SigtstpChild(c)

\* ------------------------------------------------------------ the loop, token by token

\* do { init_shell_info(&info);
LoopInit ==
    /\ pl = "top"
    /\ info' = init_shell_info
    /\ pl' = "read"
    /\ UNCHANGED <<pc, status, exit_status, stop_background, spawnPid, child, nforked, out,
                   sigCount, sigOut, announced, reports, launched, waits, lastFg, disp,
                   handlerCalls, tokens, args, prev>>

\* get_input and the tokens strtok_r will find in the line.
LoopRead ==
    /\ pl = "read"
    /\ \E l \in TokenLines : tokens' = l
    /\ pl' = "parse"
    /\ UNCHANGED <<pc, status, info, exit_status, stop_background, spawnPid, child, nforked, out,
                   sigCount, sigOut, announced, reports, launched, waits, lastFg, disp,
                   handlerCalls, args, prev>>

LoopParse ==
    /\ pl = "parse"
    /\ info' = parse_tokens(tokens, info, args).info
    /\ args' = parse_tokens(tokens, info, args).args
    /\ pl' = "exec"
    /\ UNCHANGED <<pc, status, exit_status, stop_background, spawnPid, child, nforked, out,
                   sigCount, sigOut, announced, reports, launched, waits, lastFg, disp,
                   handlerCalls, tokens, prev>>

\* execute_cmd, as far as the loop sees it: the continuation flag it returns,
\* and info.exit_status, which it may leave or overwrite with a wait status.
LoopExecute ==
    /\ pl = "exec"
    /\ status' = IF Branch(args[1]) = "exit" THEN my_exit ELSE 1
    /\ \E w \in {exit_status, W_EXITCODE(1, 0)} : exit_status' = w
    /\ pl' = "free"
    /\ UNCHANGED <<pc, info, stop_background, spawnPid, child, nforked, out,
                   sigCount, sigOut, announced, reports, launched, waits, lastFg, disp,
                   handlerCalls, tokens, args, prev>>

\* free_memory(line, args); } while (status);
LoopFree ==
    /\ pl = "free"
    /\ args' = free_memory(args)
    /\ prev' = [background |-> info.background, input_redirect |-> info.input_redirect,
                output_redirect |-> info.output_redirect, argc |-> Len(ArgList(args, 1))]
    /\ pl' = IF status # 0 THEN "top" ELSE "end"
    /\ UNCHANGED <<pc, status, info, exit_status, stop_background, spawnPid, child, nforked, out,
                   sigCount, sigOut, announced, reports, launched, waits, lastFg, disp,
                   handlerCalls, tokens>>

\* ------------------------------------------------------------ specification

Next ==
    \/ DoExit
    \/ DoCd
    \/ DoStatus
    \/ DoNoop
    \/ DoFork
    \/ ForkFail
    \/ ParentCheck
    \/ ParentFgWait
    \/ ReapOne
    \/ ReapDone
    \/ Sigtstp
    \/ ChildStep
    \/ SigintShell
    \/ ChildSignal

Spec == Init /\ [][Next]_vars

NextParse ==
    \/ LoopInit
    \/ LoopRead
    \/ LoopParse
    \/ LoopExecute
    \/ LoopFree
    \/ Sigtstp

\* The read loop of small_shell at the level of tokens, execute_cmd taken whole.
SpecParse == Init /\ [][NextParse]_vars

\* ------------------------------------------------------------ claims

Forks == 1..nforked

\* The streams a child must hold when its image is replaced.
ExpectedIn(c) ==
    IF child[c].info.input_redirect THEN child[c].info.input_filename
    ELSE IF child[c].info.background /\ ~child[c].sb THEN DevNull ELSE Tty

ExpectedOut(c) ==
    IF child[c].info.output_redirect THEN child[c].info.output_filename
    ELSE IF child[c].info.background /\ ~child[c].sb THEN DevNull ELSE Tty

AtExec(c) == child[c].st \in {"redirected", "running"}

\* C1: a command without & takes the blocking wait, the interpreter leaves that
\* wait only once the child has terminated, and at that moment exit_status is
\* exactly that child's wait status and the child is retired.
C1_ForegroundBlocks ==
    [][ /\ (pc = "forked" /\ ~info.background) => pc' \in {"forked", "fgwait"}
        /\ (pc = "fgwait" /\ ~info.background /\ pc' # "fgwait") =>
              /\ child[spawnPid].st = "zombie"
              /\ child'[spawnPid].st = "reaped"
              /\ exit_status' = child[spawnPid].wstatus
              /\ pc' = "reap" ]_vars

C1_Witness ==
    /\ pc = "reap"
    /\ ~info.background
    /\ sigCount = 0
    /\ \E c \in Forks : waits[c] = <<"fg">> /\ launched[c] = "fg"
    /\ exit_status = lastFg
    /\ exit_status = W_EXITCODE(1, 0)

\* C2: whenever the interpreter is back at the prompt, every child it launched
\* in the background has had its "background pid is" announcement printed.
C2_AnnouncedBeforePrompt ==
    pc = "prompt" => \A c \in Forks : launched[c] = "bg" => c \in announced

C4_TwoStateFlip ==
    /\ stop_background \in BOOLEAN
    /\ stop_background = (sigCount % 2 = 1)
    /\ Len(sigOut) = sigCount
    /\ \A i \in 1..Len(sigOut) : sigOut[i] = (IF i % 2 = 1 THEN MsgEnter ELSE MsgExit)

C4_Witness ==
    /\ sigCount = 2
    /\ ~stop_background
    /\ sigOut = <<MsgEnter, MsgExit>>
    /\ nforked > 0

\* C5: the line the status built-in prints, once a foreground child has
\* completed, decodes the wait status of the last foreground child.
C5_StatusIsLastForeground ==
    (pc = "reap" /\ Branch(disp.name) = "status" /\ lastFg # NoStatus) =>
        out[1] = LineStatus(lastFg)

\* C6: every child launched in the background that has been retired was
\* reported by exactly one "background pid <pid> is done" line, and no child
\* is reported more than once.
C6_BackgroundReportedOnce ==
    \A c \in Forks :
        /\ reports[c] <= 1
        /\ (launched[c] = "bg" /\ child[c].st = "reaped") => reports[c] = 1

\* C7: when the session has ended, every forked child has been waited for.
C7_NoChildAbandoned ==
    pc = "done" => \A c \in Forks : child[c].st = "reaped"

\* C8: at most one wait retires a child, and the site is the one responsible for
\* it: the blocking wait for a child run in the foreground, the advisory wait
\* or the reap loop for a child run in the background.
C8_OneWaitPerChild ==
    \A c \in Pids :
        /\ Len(waits[c]) <= 1
        /\ (child[c].st = "reaped") = (Len(waits[c]) = 1)
        /\ Len(waits[c]) = 1 =>
              /\ launched[c] \in {"fg", "bg"}
              /\ (waits[c][1] = "fg") = (launched[c] = "fg")
              /\ (waits[c][1] \in {"advisory", "reap"}) = (launched[c] = "bg")

C8_Witness ==
    /\ nforked = 2
    /\ \E c \in Forks, d \in Forks :
        /\ waits[c] = <<"fg">>
        /\ waits[d] = <<"reap">>
        /\ launched[d] = "bg"

\* C9: when a child's image is replaced, each standard stream is the explicit
\* target if one was given, else the null device for an effectively background
\* child and the interpreter's stream for an effectively foreground child.
C9_StreamsAtExec ==
    \A c \in Pids :
        AtExec(c) => child[c].fd0 = ExpectedIn(c) /\ child[c].fd1 = ExpectedOut(c)

C9_Witness ==
    \E c \in Forks, d \in Forks :
        /\ child[c].st = "running"
        /\ child[c].info.background /\ ~child[c].sb
        /\ child[c].info.input_redirect /\ ~child[c].info.output_redirect
        /\ child[c].fd0 = InFile /\ child[c].fd1 = DevNull
        /\ child[d].st = "running"
        /\ ~child[d].info.background
        /\ ~child[d].info.input_redirect /\ child[d].info.output_redirect
        /\ child[d].fd0 = Tty /\ child[d].fd1 = OutFile

\* C10: a blank line, a comment or a cd creates no process, returns the
\* continue flag and returns with exit_status as it was when it was dispatched.
C10_NoopFrame ==
    [][ (pc = "reap" /\ pc' # "reap" /\ Branch(disp.name) \in {"noop", "cd"}) =>
            /\ nforked = disp.nforked
            /\ pc' = "prompt"
            /\ exit_status' = disp.exit_status ]_vars

\* C11: a dispatch returns the stop flag exactly when args[0] is exactly
\* "exit": the reap loop of such a dispatch ends the read loop, that of every
\* other dispatch returns to the prompt, and the flag is never cleared
\* otherwise.
C11_StopOnlyOnExit ==
    /\ [](status = 0 => (pc = "done" \/ disp.name = <<"e", "x", "i", "t">>))
    /\ [](pc = "reap" => (status = 0) = (disp.name = <<"e", "x", "i", "t">>))
    /\ [][ (pc = "reap" /\ pc' # "reap") =>
              /\ (pc' = "done") = (disp.name = <<"e", "x", "i", "t">>)
              /\ (pc' = "prompt") = (disp.name # <<"e", "x", "i", "t">>) ]_vars

C11_Witness ==
    /\ pc = "reap"
    /\ status = 1
    /\ disp.name = NameExits
    /\ lastFg = W_EXITCODE(2, 0)
    /\ \E c \in Forks : launched[c] = "bg"

\* C13: a child that calls exit once its redirections are done (its execvp
\* failed) ends with exit status 2 and nothing of the interpreter changes in
\* that step; when the blocking wait retires a child
\* that exited with 2, exit_status is that status, "exit value 2" is printed
\* at once and the dispatch goes on to return the continue flag.
C13_ExecFailure ==
    [][ /\ \A c \in Pids :
            (child[c].st = "redirected" /\ child'[c].st = "zombie"
               /\ WIFEXITED(child'[c].wstatus)) =>
                /\ child'[c].wstatus = 512
                /\ WEXITSTATUS(child'[c].wstatus) = 2
                /\ UNCHANGED parentVars
        /\ (pc = "fgwait" /\ pc' # "fgwait" /\ child[spawnPid].wstatus = 512) =>
                /\ exit_status' = 512
                /\ out' = Append(out, [kind |-> "status", pid |-> NoPid,
                                       decoded |-> <<"exit value", 2>>])
                /\ pc' = "reap"
                /\ status' = 1 ]_vars

C13_Witness ==
    /\ pc = "reap"
    /\ \E c \in Forks : waits[c] = <<"fg">>
    /\ exit_status = 512
    /\ lastFg = 512
    /\ Len(out) = 1
    /\ out[1].decoded = <<"exit value", 2>>
    /\ status = 1

\* C12: a child that calls exit before it reaches execvp (a redirection's open
\* or dup2 failed) leaves with a non-zero exit status, and nothing of the
\* interpreter changes in that step.
C12_RedirectFailureNonZero ==
    [][ \A c \in Pids :
            (child[c].st \in {"ignoring", "configured"} /\ child'[c].st = "zombie"
               /\ WIFEXITED(child'[c].wstatus)) =>
                /\ WEXITSTATUS(child'[c].wstatus) # 0
                /\ UNCHANGED parentVars ]_vars

\* C15: a status built-in dispatched before any child has been waited for
\* prints the decoding of one fixed value, the 0 init_shell_info is documented
\* to set.
C15_FirstStatusFixed ==
    (pc = "reap" /\ Branch(disp.name) = "status" /\ \A c \in Pids : waits[c] = <<>>) =>
        out[1] = LineStatus(0)

\* C16: SIGINT never terminates the interpreter; a child that is effectively
\* background holds the ignore disposition and, up to its image replacement,
\* is never terminated by a signal; a child that is effectively foreground
\* holds the default disposition from the branch on, before its redirections.
C16_Interrupt ==
    /\ [](pc # "killed")
    /\ [](\A c \in Pids : Alive(c) =>
            /\ (child[c].info.background /\ ~child[c].sb) => child[c].sigint = "ignore"
            /\ (~(child[c].info.background /\ ~child[c].sb)
                  /\ child[c].st \in {"configured", "redirected", "running"}) =>
                    child[c].sigint = "default")
    /\ [][ \A c \in Pids :
            (child[c].st \in {"forked", "ignoring", "configured", "redirected"}
               /\ child[c].info.background /\ ~child[c].sb
               /\ child'[c].st = "zombie") => WIFEXITED(child'[c].wstatus) ]_vars

C16_Witness ==
    /\ pc = "fgwait"
    /\ child[spawnPid].st = "zombie"
    /\ child[spawnPid].wstatus = 2
    /\ \E c \in Forks :
        /\ child[c].st = "configured"
        /\ child[c].info.background /\ ~child[c].sb
        /\ child[c].sigint = "ignore"

\* C17: no step of a child after its fork changes the child's copy of
\* stop_background: handle_SIG never runs in a child.
C17_ChildNeverToggles ==
    [][ \A c \in Pids :
            (Alive(c) /\ child'[c].st \in {"forked", "ignoring", "configured",
                                           "redirected", "running"}) =>
                child'[c].sb = child[c].sb ]_vars

\* C18: a run of handle_SIG makes exactly one call that writes, an unbuffered
\* write, and otherwise only stores the flag: no call on the buffered stdout.
C18_HandlerOnlyWritesAndStores ==
    sigCount > 0 =>
        /\ \A i \in 1..Len(handlerCalls) : handlerCalls[i].fn \in {"write", "store"}
        /\ Cardinality({i \in 1..Len(handlerCalls) : handlerCalls[i].fn = "write"}) = 1
        /\ \A i \in 1..Len(handlerCalls) :
              handlerCalls[i].fn = "store" => handlerCalls[i].on = "stop_background"

\* C20: when the parent decides, it takes the non-blocking branch exactly when
\* the child, deciding from the copy of stop_background the fork gave it, is a
\* background child.
C20_SameDecision ==
    [][ (pc = "forked" /\ pc' # "forked") =>
            (launched'[spawnPid] = "bg") =
                ChildIsBackground(info.background, disp.forked_with) ]_vars

\* ------------------------------------------------------------ claims on tokens

\* A token as the claim wants it handed on.
Sub(t) == IF t = TokPid THEN Decimal(getpid) ELSE t

\* The arguments of the tokens from k on: redirections and & taken out, every
\* $$ replaced.
RECURSIVE Handed(_, _)
Handed(toks, k) ==
    IF k > Len(toks) THEN <<>>
    ELSE IF toks[k] \in {TokIn, TokOut} THEN Handed(toks, k + 2)
    ELSE IF toks[k] = TokAmp THEN Handed(toks, k + 1)
    ELSE <<Sub(toks[k])>> \o Handed(toks, k + 1)

\* C14: the argument list handed to execute_cmd is the line's tokens in order,
\* every $$ among them, the first token included, replaced by the decimal pid.
C14_PidEverywhere ==
    pl = "exec" => ArgList(args, 1) = <<Sub(tokens[1])>> \o Handed(tokens, 2)

\* C19: every iteration reads its line with the per-command fields reset and
\* args empty, so what it hands to execute_cmd is what the line alone gives;
\* the reset leaves exit_status and stop_background as they are.
C19_ResetEachIteration ==
    /\ [](pl = "read" => info = init_shell_info /\ args = EmptyArgs)
    /\ [](pl = "exec" =>
            [info |-> info, args |-> args] = parse_tokens(tokens, init_shell_info, EmptyArgs))
    /\ [][ (pl = "top" /\ pl' = "read") =>
              exit_status' = exit_status /\ stop_background' = stop_background ]_vars

\* A bare command after a background command with an argument and after the
\* mode was entered and a status stored.
C19_Witness ==
    /\ pl = "exec"
    /\ prev.background /\ prev.argc = 2
    /\ tokens = <<NameProg>>
    /\ ~info.background
    /\ ArgList(args, 1) = <<NameProg>>
    /\ stop_background
    /\ exit_status = W_EXITCODE(1, 0)

====
